---- MODULE Spec2Model ----
(***************************************************************************)
(* Model of the sandboxed code execution engine of the AiAgent server.     *)
(*                                                                         *)
(*   Spec        ai-agent-project/src/app.py: the /execute handler and     *)
(*               execute_code_in_docker, run by concurrent request threads *)
(*               (app.run(threaded=True)) against one host filesystem and  *)
(*               one container runtime.                                    *)
(*   SpecCall    the same code, one call at a time, over every request and *)
(*               argument of the model.                                    *)
(*   SpecClassify the same code from the moment the docker client has      *)
(*               exited, over every exit code and every short stdout and   *)
(*               stderr.                                                   *)
(*   SpecServer  ai-agent-project/src/server.py: the earlier server's      *)
(*               /execute handler and execute_code_in_docker, under        *)
(*               concurrent requests.                                      *)
(*   SpecAuth    app.py's /register, /login and /stats handlers over the   *)
(*               users table and the access tokens issued.                 *)
(*                                                                         *)
(* Text is a sequence of one-character strings, so that str.strip and the  *)
(* f-string formatting of the results are computed, not assumed.           *)
(***************************************************************************)
EXTENDS Integers, Sequences, FiniteSets, TLC

VARIABLES pc, req, loc, result, dirs, files, proc, cont, log, resp, users, tokens

vars == <<pc, req, loc, result, dirs, files, proc, cont, log, resp, users, tokens>>

(***************************************************************************)
(* Bounds of the model.                                                    *)
(***************************************************************************)
\* names tempfile.mkdtemp can draw from
NumTempNames == 2
\* longest stdout and stderr of the exhaustive outputs
MaxLen == 3

\* the request threads: two requests in flight at the same time
Calls == {1, 2}
TempNames == 1..NumTempNames

\* the name of the server's working directory among the directory names
Cwd == 0

(***************************************************************************)
(* Text.                                                                   *)
(***************************************************************************)
\* the characters str.strip() removes, among those the model uses
Whitespace == {" ", "\n", "\t"}

RECURSIVE lstrip(_)
lstrip(s) ==
    IF s # << >> /\ Head(s) \in Whitespace THEN lstrip(Tail(s)) ELSE s

RECURSIVE rstrip(_)
rstrip(s) ==
    IF s # << >> /\ s[Len(s)] \in Whitespace
    THEN rstrip(SubSeq(s, 1, Len(s) - 1))
    ELSE s

\* str.strip()
strip(s) == rstrip(lstrip(s))

Digit(d) == <<"0","1","2","3","4","5","6","7","8","9">>[d + 1]

RECURSIVE NatStr(_)
NatStr(n) == IF n < 10 THEN <<Digit(n)>> ELSE NatStr(n \div 10) \o <<Digit(n % 10)>>

\* the text an int takes inside an f-string
IntStr(n) == IF n < 0 THEN <<"-">> \o NatStr(-n) ELSE NatStr(n)

NoOutputMsg == <<"E","x","e","c","u","t","i","o","n"," ","c","o","m","p","l","e","t","e","d"," ","(","n","o"," ","o","u","t","p","u","t",")">>
ErrorCodeOpen == <<"E","r","r","o","r"," ","(","C","o","d","e"," ">>
ErrorCodeClose == <<")",":","\n">>
TimedOutOpen == <<"E","x","e","c","u","t","i","o","n"," ","t","i","m","e","d"," ","o","u","t"," ","a","f","t","e","r"," ">>
TimedOutClose == <<" ","s","e","c","o","n","d","s">>
UnsupportedOpen == <<"U","n","s","u","p","p","o","r","t","e","d"," ","l","a","n","g","u","a","g","e",":"," ">>
DockerNotFoundMsg == <<"D","o","c","k","e","r"," ","n","o","t"," ","f","o","u","n","d","."," ","P","l","e","a","s","e"," ","i","n","s","t","a","l","l"," ","D","o","c","k","e","r"," ","t","o"," ","e","x","e","c","u","t","e"," ","c","o","d","e",".">>
WriteFailedOpen == <<"F","a","i","l","e","d"," ","t","o"," ","w","r","i","t","e"," ","c","o","d","e"," ","f","i","l","e",":"," ">>
ExecErrorOpen == <<"E","x","e","c","u","t","i","o","n"," ","e","r","r","o","r",":"," ">>

\* str(e) of the OSError an exhausted disk raises, and of a spawn refused by the OS
DiskFullText == <<"E","N","O","S","P","C">>
SpawnRefusedText == <<"E","A","C","C","E","S">>

(***************************************************************************)
(* The language registry.                                                  *)
(***************************************************************************)
language_configs ==
    [python |->
        [filename |-> "code.py", docker_image |-> "python:3.9-slim",
         run_command |-> <<"python", "/app/code.py">>],
     cpp |->
        [filename |-> "code.cpp", docker_image |-> "gcc:latest",
         run_command |-> <<"bash", "-c", "cd /app && g++ -o code.out code.cpp && ./code.out">>],
     java |->
        [filename |-> "Main.java", docker_image |-> "openjdk:11-jdk-slim",
         run_command |-> <<"bash", "-c", "cd /app && javac Main.java && java Main">>],
     javascript |->
        [filename |-> "code.js", docker_image |-> "node:16-slim",
         run_command |-> <<"node", "/app/code.js">>],
     go |->
        [filename |-> "main.go", docker_image |-> "golang:1.19-alpine",
         run_command |-> <<"go", "run", "/app/main.go">>]]

Registered == DOMAIN language_configs

\* the language ids a caller may send: the registered ones, one that is not, and a
\* registered one in capitals
Languages == Registered \cup {"ruby", "PYTHON"}

\* str.lower() on the language ids of the model
lower(l) == IF l = "PYTHON" THEN "python" ELSE l

\* the characters of a language id
LanguageText(l) ==
    CASE l = "ruby" -> <<"r","u","b","y">>
      [] l = "PYTHON" -> <<"P","Y","T","H","O","N">>
      [] l = "python" -> <<"p","y","t","h","o","n">>
      [] l = "cpp" -> <<"c","p","p">>
      [] l = "java" -> <<"j","a","v","a">>
      [] l = "javascript" -> <<"j","a","v","a","s","c","r","i","p","t">>
      [] l = "go" -> <<"g","o">>


(***************************************************************************)
(* Submitted programs and what a container makes of them.                  *)
(***************************************************************************)
\* what the submitted source does when its language's toolchain runs it
Behaviour(code) ==
    CASE code = "hello" -> [kind |-> "exit", returncode |-> 0,
                            stdout |-> <<"h","i","\n">>, stderr |-> << >>]
      [] code = "fail"  -> [kind |-> "exit", returncode |-> 1,
                            stdout |-> << >>, stderr |-> <<"n","o","\n">>]
      [] OTHER          -> [kind |-> "loop"]

\* the programs a caller submits: a correct hello world, one that exits 1, one that
\* never ends
Programs == {"hello", "fail", "loop"}

\* what /execute may find under "code": a program, nothing, blanks only, 10001
\* letters ("huge"), 10000 letters between two newlines ("padded"), or 10000
\* two-byte letters ("wide")
Codes == Programs \cup {"", " ", "huge", "padded", "wide"}

\* code.strip() on the codes of the model; "full" is the 10000 letters of "padded"
code_strip(code) ==
    CASE code = " " -> ""
      [] code = "padded" -> "full"
      [] OTHER -> code

\* len(code): the characters of the code
CodeLen(code) ==
    CASE code = "" -> 0
      [] code = " " -> 1
      [] code = "huge" -> 10001
      [] code = "padded" -> 10002
      [] code = "full" -> 10000
      [] code = "wide" -> 10000
      [] OTHER -> 11

\* len(code.encode()): the bytes of the code in UTF-8
CodeBytes(code) ==
    CASE code = "wide" -> 20000
      [] OTHER -> CodeLen(code)

\* hashlib.md5(code.encode()).hexdigest()[:8]: eight hex digits fixed by the code
Md5Hex8(code) ==
    CASE code = "hello" -> <<"7","0","1","b","f","4","a","4">>
      [] code = "fail"  -> <<"c","8","b","e","2","4","3","6">>
      [] code = "loop"  -> <<"6","6","8","8","9","5","8","a">>
      [] code = "huge"  -> <<"1","a","1","d","c","9","1","c">>
      [] code = "full"  -> <<"b","5","6","7","f","c","b","6">>
      [] code = "wide"  -> <<"a","8","2","f","1","7","0","e">>
      [] OTHER          -> <<"d","4","1","d","8","c","d","9">>

\* the directory the run command writes its build output to, "" when it writes none:
\* g++ -o code.out and javac run with /app as working directory and write beside the
\* source; go run builds under the container's own /tmp
BuildDir(language) ==
    CASE language \in {"cpp", "java"} -> "/app"
      [] language = "go" -> "/tmp"
      [] OTHER -> ""

\* stderr of a compiler that cannot create its output on a read-only file system
ReadOnlyFsText == <<"E","R","O","F","S","\n">>

\* The outcome of the container's run command on the mounted source: the compile
\* step fails when it must write into a mount that is read-only.
ContainerOutcome(language, code, mountDir, readonly) ==
    IF BuildDir(language) = mountDir /\ readonly
    THEN [kind |-> "exit", returncode |-> 1, stdout |-> << >>, stderr |-> ReadOnlyFsText]
    ELSE Behaviour(code)

(***************************************************************************)
(* State.                                                                  *)
(*   pc[c]      where thread c is in its request                           *)
(*   req[c]     request.json of the request                                *)
(*   loc[c]     the locals of its call of execute_code_in_docker           *)
(*   result[c]  what that call returns                                     *)
(*   dirs       the directories of the host: the server's working          *)
(*              directory and the temporary ones, each with the thread     *)
(*              that made it                                               *)
(*   files      the source files of the host, by <<directory, filename>>   *)
(*   proc[c]    the docker client subprocess.run started                   *)
(*   cont[c]    the container the daemon started for it                    *)
(*   log        the rows of execution_logs                                 *)
(*   resp[c]    the response sent                                          *)
(***************************************************************************)
None == [none |-> TRUE]

NoProc == [state |-> "none"]
NoCont == [state |-> "none"]

\* dict.get(key, default)
Get(d, key, default) == IF key \in DOMAIN d THEN d[key] ELSE default

\* the timeout budgets a caller of execute_code_in_docker passes
Timeouts == {2, 15}

\* time.time() - start_time when subprocess.run returns, in microseconds
Elapsed == {1499, 2500}

\* round(seconds, 3), on microseconds: to the nearest millisecond, ties to even
round3(us) ==
    LET q == us \div 1000
        r == us % 1000
    IN  IF r > 500 \/ (r = 500 /\ q % 2 = 1) THEN (q + 1) * 1000 ELSE q * 1000

Init ==
    /\ pc = [c \in Calls |-> "idle"]
    /\ req = [c \in Calls |-> None]
    /\ loc = [c \in Calls |-> None]
    /\ result = [c \in Calls |-> None]
    /\ dirs = {[name |-> Cwd, by |-> 0]}
    /\ files = << >>
    /\ proc = [c \in Calls |-> NoProc]
    /\ cont = [c \in Calls |-> NoCont]
    /\ log = << >>
    /\ users = << >>
    /\ tokens = {}
    /\ resp = [c \in Calls |-> None]


(***************************************************************************)
(* execute_code_in_docker (app.py).  loc[c] holds the locals of thread c's *)
(* call, result[c] the dictionary it returns (from the return statement    *)
(* on, while the with block is still being left).                          *)
(***************************************************************************)
UnsupportedResult(language) ==
    [output |-> UnsupportedOpen \o LanguageText(language),
     success |-> FALSE, execution_time |-> 0]

WriteFailedResult(text) ==
    [output |-> WriteFailedOpen \o text, success |-> FALSE, execution_time |-> 0]

\* CompletedResult as it would be without the strip of the output
CompletedResultUnstripped(returncode, stdout, stderr, elapsed, code_hash) ==
    LET success == returncode = 0
        output == IF success THEN stdout
                  ELSE ErrorCodeOpen \o IntStr(returncode) \o ErrorCodeClose \o stderr
    IN  [output |-> IF output # << >> THEN output ELSE NoOutputMsg,
         success |-> success,
         execution_time |-> round3(elapsed),
         code_hash |-> code_hash]

\* CompletedResult as it would be with success taken from "no error code" (<= 0)
CompletedResultSigned(returncode, stdout, stderr, elapsed, code_hash) ==
    LET success == returncode <= 0
        output == IF success THEN stdout
                  ELSE ErrorCodeOpen \o IntStr(returncode) \o ErrorCodeClose \o stderr
    IN  [output |-> IF strip(output) # << >> THEN strip(output) ELSE NoOutputMsg,
         success |-> success,
         execution_time |-> round3(elapsed),
         code_hash |-> code_hash]

\* the dictionary built when subprocess.run returns; times in microseconds
CompletedResult(returncode, stdout, stderr, elapsed, code_hash) ==
    LET success == returncode = 0
        output == IF success THEN stdout
                  ELSE ErrorCodeOpen \o IntStr(returncode) \o ErrorCodeClose \o stderr
    IN  [output |-> IF strip(output) # << >> THEN strip(output) ELSE NoOutputMsg,
         success |-> success,
         execution_time |-> round3(elapsed),
         code_hash |-> code_hash]

\* TimeoutResult as it would be reporting the default budget, not the call's
TimeoutResultDefault(timeout) ==
    [output |-> TimedOutOpen \o IntStr(15) \o TimedOutClose,
     success |-> FALSE,
     execution_time |-> 15 * 1000000]

TimeoutResult(timeout) ==
    [output |-> TimedOutOpen \o IntStr(timeout) \o TimedOutClose,
     success |-> FALSE,
     execution_time |-> timeout * 1000000]

DockerNotFoundResult ==
    [output |-> DockerNotFoundMsg, success |-> FALSE, execution_time |-> 0]

ExecErrorResult(text, elapsed) ==
    [output |-> ExecErrorOpen \o text, success |-> FALSE, execution_time |-> elapsed]

\* temp_dir before the with statement has bound it
NoDir == -1

\* the default of the timeout parameter
DefaultTimeout == 15

\* the 10KB limit of /execute
MaxCodeLen == 10000

\* The locals of a call.  Three fields are bookkeeping: fault is the step that
\* raised, if one did; attempts counts the calls of subprocess.run; log_calls counts
\* the handler's calls of log_execution.
Locals(code, language, timeout, via) ==
    [code |-> code, language |-> language, timeout |-> timeout, via |-> via,
     code_hash |-> Md5Hex8(code), temp_dir |-> NoDir,
     fault |-> "none", attempts |-> 0, log_calls |-> 0]

\* A caller other than /execute invokes the function, with a timeout of its choice.
DirectCall(c, codes, languages, timeouts) ==
    /\ pc[c] = "idle"
    /\ \E code \in codes, language \in languages, timeout \in timeouts :
          loc' = [loc EXCEPT ![c] = Locals(code, language, timeout, "direct")]
    /\ pc' = [pc EXCEPT ![c] = "call"]
    /\ UNCHANGED <<req, result, dirs, files, proc, cont, log, resp, users, tokens>>

\* the names of the directories that exist
DirNames(existing) == {x.name : x \in existing}

\* the name tempfile.mkdtemp settles on: one no directory has yet
FreshNames(existing) == TempNames \ DirNames(existing)

\* Enter as it would be with the registry looked up inside the with block
EnterLateLookup(c) ==
    /\ pc[c] = "call"
    /\ IF loc[c].language \notin Registered
       THEN /\ result' = [result EXCEPT ![c] = UnsupportedResult(loc[c].language)]
            /\ dirs' = dirs \cup {[name |-> CHOOSE d \in FreshNames(dirs) : TRUE, by |-> c]}
            /\ loc' = [loc EXCEPT ![c].temp_dir = CHOOSE d \in FreshNames(dirs) : TRUE]
            /\ pc' = [pc EXCEPT ![c] = "cleanup"]
       ELSE /\ pc' = [pc EXCEPT ![c] = "mkdtemp"]
            /\ UNCHANGED <<result, dirs, loc>>
    /\ UNCHANGED <<req, files, proc, cont, log, resp, users, tokens>>

\* start of the function: fingerprint, registry lookup
Enter(c) ==
    /\ pc[c] = "call"
    /\ IF loc[c].language \notin Registered
       THEN /\ result' = [result EXCEPT ![c] = UnsupportedResult(loc[c].language)]
            /\ pc' = [pc EXCEPT ![c] = "returned"]
       ELSE /\ pc' = [pc EXCEPT ![c] = "mkdtemp"]
            /\ UNCHANGED result
    /\ UNCHANGED <<req, loc, dirs, files, proc, cont, log, resp, users, tokens>>

\* with tempfile.TemporaryDirectory() as temp_dir
Mkdtemp(c) ==
    /\ pc[c] = "mkdtemp"
    /\ \E d \in FreshNames(dirs) :
          /\ dirs' = dirs \cup {[name |-> d, by |-> c]}
          /\ loc' = [loc EXCEPT ![c].temp_dir = d]
    /\ pc' = [pc EXCEPT ![c] = "write"]
    /\ UNCHANGED <<req, result, files, proc, cont, log, resp, users, tokens>>

\* mkdtemp raises (no space, no permission): the exception leaves the function
MkdtempFail(c) ==
    /\ pc[c] = "mkdtemp"
    /\ loc' = [loc EXCEPT ![c].fault = "mkdtemp"]
    /\ pc' = [pc EXCEPT ![c] = "raised"]
    /\ UNCHANGED <<req, result, dirs, files, proc, cont, log, resp, users, tokens>>

file_path(c) == <<loc[c].temp_dir, language_configs[loc[c].language].filename>>

\* files with path p holding content
WriteTo(fs, p, content) ==
    [q \in DOMAIN fs \cup {p} |-> IF q = p THEN content ELSE fs[q]]

WriteFile(c) ==
    /\ pc[c] = "write"
    /\ files' = WriteTo(files, file_path(c), loc[c].code)
    /\ pc' = [pc EXCEPT ![c] = "spawn"]
    /\ UNCHANGED <<req, loc, result, dirs, proc, cont, log, resp, users, tokens>>

\* the write raises: the except around it returns the failure
WriteFileFail(c) ==
    /\ pc[c] = "write"
    /\ loc' = [loc EXCEPT ![c].fault = "write"]
    /\ result' = [result EXCEPT ![c] = WriteFailedResult(DiskFullText)]
    /\ pc' = [pc EXCEPT ![c] = "cleanup"]
    /\ UNCHANGED <<req, dirs, files, proc, cont, log, resp, users, tokens>>

\* the options of docker run that do not depend on the call
DockerOptions ==
    <<"--rm", "--memory=128m", "--memory-swap=128m", "--cpus=0.5", "--network=none",
      "--cap-drop=ALL", "--security-opt", "no-new-privileges">>

\* docker run OPTIONS -v temp_dir:/app:ro image run_command
docker_command(c) ==
    [options |-> DockerOptions,
     mount |-> loc[c].temp_dir, target |-> "/app", readonly |-> TRUE,
     image |-> language_configs[loc[c].language].docker_image,
     run_command |-> language_configs[loc[c].language].run_command]

\* subprocess.run starts the docker client, which has the daemon start the container
\* on the mounted directory
Spawn(c) ==
    /\ pc[c] = "spawn"
    /\ proc' = [proc EXCEPT ![c] = [state |-> "running", timeout |-> loc[c].timeout]]
    /\ cont' = [cont EXCEPT ![c] =
                  [state |-> "running", language |-> loc[c].language,
                   program |-> files[file_path(c)], command |-> docker_command(c)]]
    /\ loc' = [loc EXCEPT ![c].attempts = @ + 1]
    /\ pc' = [pc EXCEPT ![c] = "wait"]
    /\ UNCHANGED <<req, result, dirs, files, log, resp, users, tokens>>

\* FileNotFoundError: no docker executable
SpawnNoDocker(c) ==
    /\ pc[c] = "spawn"
    /\ loc' = [loc EXCEPT ![c].fault = "docker_missing", ![c].attempts = @ + 1]
    /\ result' = [result EXCEPT ![c] = DockerNotFoundResult]
    /\ pc' = [pc EXCEPT ![c] = "cleanup"]
    /\ UNCHANGED <<req, dirs, files, proc, cont, log, resp, users, tokens>>

\* SpawnError as it would be with one retry of subprocess.run after an exception
SpawnErrorRetry(c) ==
    /\ pc[c] = "spawn"
    /\ loc' = [loc EXCEPT ![c].fault = "spawn", ![c].attempts = @ + 1]
    /\ IF loc[c].attempts = 0
       THEN UNCHANGED <<pc, result>>
       ELSE /\ \E elapsed \in Elapsed :
                  result' = [result EXCEPT ![c] = ExecErrorResult(SpawnRefusedText, elapsed)]
            /\ pc' = [pc EXCEPT ![c] = "cleanup"]
    /\ UNCHANGED <<req, dirs, files, proc, cont, log, resp, users, tokens>>

\* any other exception of subprocess.run
SpawnError(c) ==
    /\ pc[c] = "spawn"
    /\ \E elapsed \in Elapsed :
          result' = [result EXCEPT ![c] = ExecErrorResult(SpawnRefusedText, elapsed)]
    /\ loc' = [loc EXCEPT ![c].fault = "spawn", ![c].attempts = @ + 1]
    /\ pc' = [pc EXCEPT ![c] = "cleanup"]
    /\ UNCHANGED <<req, dirs, files, proc, cont, log, resp, users, tokens>>

\* The container's command ends; --rm removes the container, and the docker client,
\* when it is still there, exits with the command's code and output.
ContainerExit(c) ==
    /\ cont[c].state = "running"
    /\ LET o == ContainerOutcome(cont[c].language, cont[c].program,
                                 cont[c].command.target, cont[c].command.readonly)
       IN  /\ o.kind = "exit"
           /\ proc' = [proc EXCEPT ![c] =
                         IF @.state = "running"
                         THEN [state |-> "exited", timeout |-> @.timeout,
                               returncode |-> o.returncode,
                               stdout |-> o.stdout, stderr |-> o.stderr]
                         ELSE @]
    /\ cont' = [cont EXCEPT ![c].state = "removed"]
    /\ UNCHANGED <<pc, req, loc, result, dirs, files, log, resp, users, tokens>>

\* subprocess.run returns the finished client's code and output
Complete(c) ==
    /\ pc[c] = "wait"
    /\ proc[c].state = "exited"
    /\ \E elapsed \in Elapsed :
          result' = [result EXCEPT ![c] =
                       CompletedResult(proc[c].returncode, proc[c].stdout,
                                       proc[c].stderr, elapsed, loc[c].code_hash)]
    /\ pc' = [pc EXCEPT ![c] = "cleanup"]
    /\ UNCHANGED <<req, loc, dirs, files, proc, cont, log, resp, users, tokens>>

\* The deadline passes with the client still running: subprocess.run kills its
\* child, the docker client, waits for it and raises TimeoutExpired.  The container
\* is the daemon's, not a child of the client: it runs on.
Timeout(c) ==
    /\ pc[c] = "wait"
    /\ proc[c].state = "running"
    /\ proc' = [proc EXCEPT ![c] = [state |-> "killed", timeout |-> @.timeout]]
    /\ result' = [result EXCEPT ![c] = TimeoutResult(proc[c].timeout)]
    /\ pc' = [pc EXCEPT ![c] = "cleanup"]
    /\ UNCHANGED <<req, loc, dirs, files, cont, log, resp, users, tokens>>

\* RemoveTree as it would be were the directory made with mkdtemp and never removed
RemoveTreeKept(existing, d) == existing

\* what is left of the directories once TemporaryDirectory.cleanup has run on d
RemoveTree(existing, d) == {x \in existing : x.name # d}

\* leaving the with block, on return: the directory and what is in it are removed
Cleanup(c) ==
    /\ pc[c] = "cleanup"
    /\ dirs' = RemoveTree(dirs, loc[c].temp_dir)
    /\ files' = [q \in {p \in DOMAIN files : p[1] \in DirNames(dirs')} |-> files[q]]
    /\ pc' = [pc EXCEPT ![c] = "returned"]
    /\ UNCHANGED <<req, loc, result, proc, cont, log, resp, users, tokens>>


(***************************************************************************)
(* The /execute handler (app.py).                                          *)
(***************************************************************************)
\* request.json of the requests the model sends: "code", with "language" and
\* "timeoutSeconds" when the client gives them ("analyze" is drawn where the handler
\* reads it)
RequestData ==
    LET base == {[code |-> code] : code \in Codes}
        lang == {[code |-> b.code, language |-> l] : b \in base, l \in Languages}
        both == base \cup lang
    IN  both \cup {d @@ [timeoutSeconds |-> 2] : d \in both}

\* a request.json the handler takes for no data: the empty object
IsNoData(data) == DOMAIN data = {}

\* get_jwt_identity()["username"] of the thread's request
Username(c) == c

\* The handler up to its call of execute_code_in_docker(code, language).
Execute(c, requests) ==
    /\ pc[c] = "idle"
    /\ \E data \in requests \cup {<< >>} :
          LET code == code_strip(Get(data, "code", ""))
              language == lower(Get(data, "language", "python"))
          IN  /\ req' = [req EXCEPT ![c] = data]
              /\ IF IsNoData(data)
                 THEN /\ resp' = [resp EXCEPT ![c] = [status |-> 400, error |-> "No data provided"]]
                      /\ pc' = [pc EXCEPT ![c] = "done"]
                      /\ UNCHANGED loc
                 ELSE IF code = ""
                 THEN /\ resp' = [resp EXCEPT ![c] = [status |-> 400, error |-> "No code provided"]]
                      /\ pc' = [pc EXCEPT ![c] = "done"]
                      /\ UNCHANGED loc
                 ELSE IF CodeLen(code) > MaxCodeLen
                 THEN /\ resp' = [resp EXCEPT ![c] = [status |-> 400, error |-> "Code too large (max 10KB)"]]
                      /\ pc' = [pc EXCEPT ![c] = "done"]
                      /\ UNCHANGED loc
                 ELSE /\ loc' = [loc EXCEPT ![c] = Locals(code, language, DefaultTimeout, "execute")]
                      /\ pc' = [pc EXCEPT ![c] = "call"]
                      /\ UNCHANGED resp
    /\ UNCHANGED <<result, dirs, files, proc, cont, log, users, tokens>>

\* the row log_execution receives
LogRecord(c) ==
    [username |-> Username(c), language |-> loc[c].language,
     code_hash |-> Get(result[c], "code_hash", << >>),
     execution_time |-> Get(result[c], "execution_time", 0),
     success |-> Get(result[c], "success", FALSE)]

\* log_execution, after the function has returned: the row is inserted, or the
\* database fails and the failure is swallowed
LogExecution(c) ==
    /\ pc[c] = "returned"
    /\ loc[c].via = "execute"
    /\ \/ log' = Append(log, LogRecord(c))
       \/ UNCHANGED log
    /\ loc' = [loc EXCEPT ![c].log_calls = @ + 1]
    /\ pc' = [pc EXCEPT ![c] = "logged"]
    /\ UNCHANGED <<req, result, dirs, files, proc, cont, resp, users, tokens>>

\* the optional analysis, then jsonify(result)
Respond(c) ==
    /\ pc[c] = "logged"
    /\ \E analyze \in BOOLEAN :
          resp' = [resp EXCEPT ![c] =
                     [status |-> 200,
                      body |-> IF analyze
                               THEN result[c] @@ [analysis |-> "analysis"]
                               ELSE result[c]]]
    /\ pc' = [pc EXCEPT ![c] = "done"]
    /\ UNCHANGED <<req, loc, result, dirs, files, proc, cont, log, users, tokens>>

\* an exception out of execute_code_in_docker reaches the handler's except
ExecuteFailed(c) ==
    /\ pc[c] = "raised"
    /\ loc[c].via = "execute"
    /\ resp' = [resp EXCEPT ![c] = [status |-> 500, error |-> "Execution failed"]]
    /\ pc' = [pc EXCEPT ![c] = "done"]
    /\ UNCHANGED <<req, loc, result, dirs, files, proc, cont, log, users, tokens>>

\* what thread c does next, given what callers may send
Step(c, requests, codes, languages, timeouts) ==
    \/ Execute(c, requests)
    \/ DirectCall(c, codes, languages, timeouts)
    \/ Enter(c)
    \/ Mkdtemp(c)
    \/ MkdtempFail(c)
    \/ WriteFile(c)
    \/ WriteFileFail(c)
    \/ Spawn(c)
    \/ SpawnNoDocker(c)
    \/ SpawnError(c)
    \/ ContainerExit(c)
    \/ Complete(c)
    \/ Timeout(c)
    \/ Cleanup(c)
    \/ LogExecution(c)
    \/ Respond(c)
    \/ ExecuteFailed(c)

\* the requests of the concurrent workload: a program that ends, one that does not,
\* in a registered language and in one that is not
WorkloadData == {[code |-> code, language |-> l] : code \in {"hello", "loop"}, l \in {"python", "ruby"}}

\* The server under concurrent requests.
Next ==
    \E c \in Calls : Step(c, WorkloadData, {"fail"}, {"cpp"}, {2})

Spec == Init /\ [][Next]_vars

\* One call at a time, with every request and every argument of the model.
NextCall == Step(1, RequestData, Programs, Languages, Timeouts)

SpecCall == Init /\ [][NextCall]_vars


(***************************************************************************)
(* server.py: the earlier server.  Same state; the source file is written  *)
(* under its bare name into the server's working directory.                *)
(***************************************************************************)
SrvUnsupportedMsg == <<"U","n","s","u","p","p","o","r","t","e","d"," ","l","a","n","g","u","a","g","e",".">>
SrvNoOutputMsg == <<"E","x","e","c","u","t","i","o","n"," ","c","o","m","p","l","e","t","e","d"," ","s","u","c","c","e","s","s","f","u","l","l","y",".">>
SrvErrorOpen == <<"E","r","r","o","r",":","\n">>
SrvTimedOutMsg == <<"E","x","e","c","u","t","i","o","n"," ","t","i","m","e","d"," ","o","u","t","!">>

\* the timeout server.py hands to subprocess.run
SrvTimeout == 10

\* the if/elif chain that picks filename, image and command
SrvConfig(language) ==
    CASE language = "python" ->
           [filename |-> "code.py", docker_image |-> "python:3.9-slim",
            run_command |-> <<"python", "/app/code.py">>]
      [] language = "cpp" ->
           [filename |-> "code.cpp", docker_image |-> "gcc:latest",
            run_command |-> <<"bash", "-c", "g++ /app/code.cpp -o /app/code.out && /app/code.out">>]
      [] language = "java" ->
           [filename |-> "Main.java", docker_image |-> "openjdk:11-jdk-slim",
            run_command |-> <<"bash", "-c", "javac /app/Main.java && java -cp /app Main">>]
      [] OTHER -> None

\* os.path.abspath(filename): the file in the process's working directory
SrvPath(language) == <<Cwd, SrvConfig(language).filename>>

\* the handler: no validation, then execute_code_in_docker up to its language check
SrvExecute(c, requests) ==
    /\ pc[c] = "idle"
    /\ \E data \in requests :
          LET language == Get(data, "language", "python")
          IN  /\ req' = [req EXCEPT ![c] = data]
              /\ loc' = [loc EXCEPT ![c] =
                           [code |-> data.code, language |-> language, via |-> "execute",
                            fault |-> "none", attempts |-> 0]]
              /\ IF SrvConfig(language) = None
                 THEN /\ result' = [result EXCEPT ![c] = SrvUnsupportedMsg]
                      /\ pc' = [pc EXCEPT ![c] = "returned"]
                 ELSE /\ pc' = [pc EXCEPT ![c] = "write"]
                      /\ UNCHANGED result
    /\ UNCHANGED <<dirs, files, proc, cont, log, resp, users, tokens>>

\* with open(filename, "w") as f: f.write(code)
SrvWriteFile(c) ==
    /\ pc[c] = "write"
    /\ files' = WriteTo(files, SrvPath(loc[c].language), loc[c].code)
    /\ pc' = [pc EXCEPT ![c] = "spawn"]
    /\ UNCHANGED <<req, loc, result, dirs, proc, cont, log, resp, users, tokens>>

\* the write raises: nothing in the function or the handler catches it
SrvWriteFileFail(c) ==
    /\ pc[c] = "write"
    /\ loc' = [loc EXCEPT ![c].fault = "write"]
    /\ pc' = [pc EXCEPT ![c] = "raised"]
    /\ UNCHANGED <<req, result, dirs, files, proc, cont, log, resp, users, tokens>>

\* docker run --rm -v abs_path:/app/filename image run_command
SrvCommand(c) ==
    [options |-> <<"--rm">>, mount |-> SrvPath(loc[c].language),
     target |-> "/app/" \o SrvConfig(loc[c].language).filename, readonly |-> FALSE,
     image |-> SrvConfig(loc[c].language).docker_image,
     run_command |-> SrvConfig(loc[c].language).run_command]

\* subprocess.run starts the client and the container, which gets the file as the
\* working directory holds it now
SrvSpawn(c) ==
    /\ pc[c] = "spawn"
    /\ proc' = [proc EXCEPT ![c] = [state |-> "running", timeout |-> SrvTimeout]]
    /\ cont' = [cont EXCEPT ![c] =
                  [state |-> "running", language |-> loc[c].language,
                   program |-> files[SrvPath(loc[c].language)], command |-> SrvCommand(c)]]
    /\ loc' = [loc EXCEPT ![c].attempts = @ + 1]
    /\ pc' = [pc EXCEPT ![c] = "wait"]
    /\ UNCHANGED <<req, result, dirs, files, log, resp, users, tokens>>

\* no docker executable, or another error of subprocess.run: only TimeoutExpired is
\* caught
SrvSpawnFail(c) ==
    /\ pc[c] = "spawn"
    /\ \E fault \in {"docker_missing", "spawn"} :
          loc' = [loc EXCEPT ![c].fault = fault, ![c].attempts = @ + 1]
    /\ pc' = [pc EXCEPT ![c] = "raised"]
    /\ UNCHANGED <<req, result, dirs, files, proc, cont, log, resp, users, tokens>>

\* the text returned when subprocess.run returns
SrvCompletedResult(returncode, stdout, stderr) ==
    IF returncode = 0
    THEN IF strip(stdout) # << >> THEN stdout ELSE SrvNoOutputMsg
    ELSE SrvErrorOpen \o stderr

SrvComplete(c) ==
    /\ pc[c] = "wait"
    /\ proc[c].state = "exited"
    /\ result' = [result EXCEPT ![c] =
                    SrvCompletedResult(proc[c].returncode, proc[c].stdout, proc[c].stderr)]
    /\ pc' = [pc EXCEPT ![c] = "returned"]
    /\ UNCHANGED <<req, loc, dirs, files, proc, cont, log, resp, users, tokens>>

\* TimeoutExpired: subprocess.run has killed the client
SrvTimedOut(c) ==
    /\ pc[c] = "wait"
    /\ proc[c].state = "running"
    /\ proc' = [proc EXCEPT ![c] = [state |-> "killed", timeout |-> @.timeout]]
    /\ result' = [result EXCEPT ![c] = SrvTimedOutMsg]
    /\ pc' = [pc EXCEPT ![c] = "returned"]
    /\ UNCHANGED <<req, loc, dirs, files, cont, log, resp, users, tokens>>

\* jsonify({"output": output})
SrvRespond(c) ==
    /\ pc[c] = "returned"
    /\ resp' = [resp EXCEPT ![c] = [status |-> 200, body |-> [output |-> result[c]]]]
    /\ pc' = [pc EXCEPT ![c] = "done"]
    /\ UNCHANGED <<req, loc, result, dirs, files, proc, cont, log, users, tokens>>

\* an uncaught exception: the framework answers 500
SrvFailed(c) ==
    /\ pc[c] = "raised"
    /\ resp' = [resp EXCEPT ![c] = [status |-> 500, error |-> "Internal Server Error"]]
    /\ pc' = [pc EXCEPT ![c] = "done"]
    /\ UNCHANGED <<req, loc, result, dirs, files, proc, cont, log, users, tokens>>

\* the requests sent to server.py: every program, with and without a language
SrvRequestData ==
    {[code |-> code] : code \in Programs}
      \cup {[code |-> code, language |-> l] :
              code \in Programs, l \in {"python", "cpp", "java", "go", "PYTHON"}}

NextServer ==
    \E c \in Calls :
        \/ SrvExecute(c, SrvRequestData)
        \/ SrvWriteFile(c)
        \/ SrvWriteFileFail(c)
        \/ SrvSpawn(c)
        \/ SrvSpawnFail(c)
        \/ ContainerExit(c)
        \/ SrvComplete(c)
        \/ SrvTimedOut(c)
        \/ SrvRespond(c)
        \/ SrvFailed(c)

SpecServer == Init /\ [][NextServer]_vars


(***************************************************************************)
(* SpecClassify: a call of app.py's function waiting on a client that has  *)
(* exited, for every exit code and every stdout and stderr up to MaxLen.   *)
(***************************************************************************)
Alphabet == {"a", " ", "\n"}

RECURSIVE TextsOfLen(_)
TextsOfLen(n) ==
    IF n = 0 THEN {<< >>}
    ELSE {<<ch>> \o t : ch \in Alphabet, t \in TextsOfLen(n - 1)}

Texts == UNION {TextsOfLen(n) : n \in 0..MaxLen}

\* exit codes: success, failures, killed by a signal
ReturnCodes == {0, 1, 2, 137, -9}

InitClassify ==
    /\ pc = [c \in Calls |-> IF c = 1 THEN "wait" ELSE "idle"]
    /\ req = [c \in Calls |-> None]
    /\ loc = [c \in Calls |->
                IF c = 1
                THEN [Locals("hello", "python", DefaultTimeout, "direct")
                        EXCEPT !.temp_dir = 1, !.attempts = 1]
                ELSE None]
    /\ result = [c \in Calls |-> None]
    /\ dirs = {[name |-> Cwd, by |-> 0], [name |-> 1, by |-> 1]}
    /\ files = WriteTo(<< >>, <<1, "code.py">>, "hello")
    /\ \E returncode \in ReturnCodes, stdout \in Texts, stderr \in Texts :
          proc = [c \in Calls |->
                    IF c = 1
                    THEN [state |-> "exited", timeout |-> DefaultTimeout,
                          returncode |-> returncode, stdout |-> stdout, stderr |-> stderr]
                    ELSE NoProc]
    /\ cont = [c \in Calls |->
                 IF c = 1
                 THEN [state |-> "removed", language |-> "python", program |-> "hello",
                       command |-> docker_command(1)]
                 ELSE NoCont]
    /\ log = << >>
    /\ users = << >>
    /\ tokens = {}
    /\ resp = [c \in Calls |-> None]

NextClassify == Complete(1) \/ Cleanup(1)

SpecClassify == InitClassify /\ [][NextClassify]_vars


(***************************************************************************)
(* Properties.                                                             *)
(***************************************************************************)
\* where a thread is once its call of execute_code_in_docker has returned
AfterReturn == {"returned", "logged", "done"}

\* thread c called execute_code_in_docker and the call is over, by return or raise
CallOver(c) == loc[c] # None /\ pc[c] \in AfterReturn \cup {"raised"}

Returned(c) == loc[c] # None /\ pc[c] \in AfterReturn

\* the directories thread c's call made that still exist
WorkspacesOf(c) == {x \in dirs : x.by = c}

IsBlank(s) == \A i \in 1..Len(s) : s[i] \in Whitespace

\* t is s without its leading and trailing whitespace
IsTrimOf(t, s) ==
    IF IsBlank(s) THEN t = << >>
    ELSE \E i, j \in 1..Len(s) :
            /\ i <= j
            /\ t = SubSeq(s, i, j)
            /\ s[i] \notin Whitespace /\ s[j] \notin Whitespace
            /\ \A k \in 1..Len(s) : (k < i \/ k > j) => s[k] \in Whitespace

DigitValue(ch) == CHOOSE d \in 0..9 : Digit(d) = ch

IsNumeral(s) ==
    /\ s # << >>
    /\ \A i \in 1..Len(s) : \E d \in 0..9 : Digit(d) = s[i]

RECURSIVE NumeralValue(_)
NumeralValue(s) ==
    IF s = << >> THEN 0
    ELSE 10 * NumeralValue(SubSeq(s, 1, Len(s) - 1)) + DigitValue(s[Len(s)])

\* s is the decimal text of the integer n
Denotes(s, n) ==
    IF n < 0
    THEN s # << >> /\ Head(s) = "-" /\ IsNumeral(Tail(s)) /\ NumeralValue(Tail(s)) = -n
    ELSE IsNumeral(s) /\ NumeralValue(s) = n

\* text is open, then the decimal text of n, then close
Frames(text, open, n, close) ==
    \E k \in 0..Len(text) :
        /\ Len(text) = Len(open) + k + Len(close)
        /\ SubSeq(text, 1, Len(open)) = open
        /\ Denotes(SubSeq(text, Len(open) + 1, Len(open) + k), n)
        /\ SubSeq(text, Len(open) + k + 1, Len(text)) = close

\* C1: once a call of execute_code_in_docker is over, by whichever exit, no
\* directory made for it exists any more, and no source file is left without its
\* directory.
C1_WorkspaceRemoved ==
    /\ \A c \in Calls : CallOver(c) => WorkspacesOf(c) = {}
    /\ \A p \in DOMAIN files : p[1] \in DirNames(dirs)

\* C1 witness: a call that made its workspace, ran into the timeout and returned,
\* beside a call that made its workspace and returned without a docker client.
C1_Witness ==
    \E c, e \in Calls :
        /\ Returned(c) /\ loc[c].temp_dir # NoDir /\ proc[c].state = "killed"
        /\ Returned(e) /\ loc[e].temp_dir # NoDir /\ proc[e].state = "none"

\* C2: no call has returned the timeout result while the container started for it
\* is still running.
C2_TimeoutMeansContainerStopped ==
    \A c \in Calls :
        (Returned(c) /\ proc[c].state = "killed") => cont[c].state # "running"

\* C3: a call with a language outside the registry returns the "Unsupported
\* language" failure, and at no moment of it is there a workspace of its own, a
\* file written, a docker client or a container.
C3_UnsupportedTouchesNothing ==
    \A c \in Calls :
        (loc[c] # None /\ loc[c].language \notin {"python", "cpp", "java", "javascript", "go"}) =>
            /\ WorkspacesOf(c) = {}
            /\ loc[c].temp_dir = NoDir
            /\ files = << >>
            /\ proc[c].state = "none"
            /\ cont[c].state = "none"
            /\ pc[c] \in {"call"} \cup AfterReturn
            /\ Returned(c) =>
                  /\ result[c].success = FALSE
                  /\ result[c].output = UnsupportedOpen \o LanguageText(loc[c].language)

\* C3 witness: the handler has answered a request in an unregistered language.
C3_Witness ==
    \E c \in Calls :
        /\ pc[c] = "done" /\ loc[c] # None
        /\ loc[c].language = "ruby" /\ loc[c].via = "execute"
        /\ resp[c].status = 200

\* the path of the source file thread c's call wrote
SourcePath(c) ==
    IF "temp_dir" \in DOMAIN loc[c] THEN file_path(c) ELSE SrvPath(loc[c].language)

InFlight(c) == loc[c] # None /\ pc[c] \in {"spawn", "wait", "cleanup"}

\* C4: two executions in flight at the same time have different source files, and
\* every container runs the code of its own request.
C4_NoSharedWorkspace ==
    /\ \A c, e \in Calls :
          (c # e /\ InFlight(c) /\ InFlight(e)) => SourcePath(c) # SourcePath(e)
    /\ \A c \in Calls : cont[c].state # "none" => cont[c].program = loc[c].code

\* the call ran the docker client to its exit or to the timeout
Classified(c) == Returned(c) /\ proc[c].state \in {"exited", "killed"}

\* C5: every result of a finished or timed out run carries an elapsed time and the
\* fingerprint of the submitted code, and the row logged for it carries the same,
\* non-empty fingerprint.
C5_ResultCarriesFingerprint ==
    /\ \A c \in Calls :
          Classified(c) =>
              /\ "execution_time" \in DOMAIN result[c]
              /\ "code_hash" \in DOMAIN result[c]
              /\ result[c].code_hash = Md5Hex8(loc[c].code)
    /\ \A i \in 1..Len(log) :
          Classified(log[i].username) =>
              /\ log[i].code_hash # << >>
              /\ log[i].code_hash = Md5Hex8(loc[log[i].username].code)

\* C6: in every registered language a correct hello world, run to its end, yields
\* success with the program's text as output.
C6_HelloWorldSucceeds ==
    \A c \in Calls :
        (Returned(c) /\ loc[c].code = "hello" /\ loc[c].language \in Registered
                     /\ proc[c].state = "exited") =>
            /\ result[c].success = TRUE
            /\ result[c].output = <<"h","i">>

\* the call's docker client exited and the call has built its result
Completed(c) == loc[c] # None /\ pc[c] \in {"cleanup"} \cup AfterReturn /\ proc[c].state = "exited"

\* C7 as stated: on exit code 0 the result is a success whose output is stdout
\* without leading and trailing whitespace, or the no-output message when stdout is
\* empty.
C7_AsStated ==
    \A c \in Calls :
        (Completed(c) /\ proc[c].returncode = 0) =>
            /\ result[c].success = TRUE
            /\ IF proc[c].stdout = << >>
               THEN result[c].output = NoOutputMsg
               ELSE IsTrimOf(result[c].output, proc[c].stdout)

\* C7 amended: on exit code 0 the result is a success whose output is stdout
\* without leading and trailing whitespace, or the no-output message when stdout is
\* empty or whitespace only.
C7_TrimmedStdout ==
    \A c \in Calls :
        (Completed(c) /\ proc[c].returncode = 0) =>
            /\ result[c].success = TRUE
            /\ IF IsBlank(proc[c].stdout)
               THEN result[c].output =
                      <<"E","x","e","c","u","t","i","o","n"," ","c","o","m","p","l","e","t","e","d"," ","(","n","o"," ","o","u","t","p","u","t",")">>
               ELSE IsTrimOf(result[c].output, proc[c].stdout)

\* C7 witness: a result built on exit code 0 from a stdout that is one newline.
C7_Witness ==
    \E c \in Calls :
        /\ Completed(c) /\ proc[c].returncode = 0
        /\ proc[c].stdout = <<"\n">>
        /\ result[c].success = TRUE

\* text is "Error (Code n):", a newline and stderr
IsErrorText(text, n, stderr) ==
    /\ Len(text) >= Len(stderr)
    /\ SubSeq(text, Len(text) - Len(stderr) + 1, Len(text)) = stderr
    /\ Frames(SubSeq(text, 1, Len(text) - Len(stderr)), ErrorCodeOpen, n, ErrorCodeClose)

\* the whitespace a text made of a newline and a stderr can end in
BlankTails == {t \in Texts \cup {<<"\n">> \o u : u \in Texts} : IsBlank(t)}

\* C8 as stated: on a non-zero exit code n the result is a failure whose output is
\* "Error (Code n):", a newline and stderr; success holds exactly on exit code 0.
C8_AsStated ==
    \A c \in Calls :
        Completed(c) =>
            /\ result[c].success = (proc[c].returncode = 0)
            /\ proc[c].returncode # 0 =>
                  IsErrorText(result[c].output, proc[c].returncode, proc[c].stderr)

\* C8 amended: on a non-zero exit code n the result is a failure whose output is
\* "Error (Code n):", a newline and stderr, less the whitespace this text ends in;
\* success holds exactly on exit code 0.
C8_ErrorOutput ==
    \A c \in Calls :
        Completed(c) =>
            /\ result[c].success = (proc[c].returncode = 0)
            /\ proc[c].returncode # 0 =>
                  /\ result[c].output[Len(result[c].output)] \notin Whitespace
                  /\ \E tail \in BlankTails :
                        IsErrorText(result[c].output \o tail, proc[c].returncode, proc[c].stderr)

\* C8 witness: a result built on exit code 137 from an empty stderr.
C8_Witness ==
    \E c \in Calls :
        /\ Completed(c)
        /\ proc[c].returncode = 137 /\ proc[c].stderr = << >>
        /\ result[c].success = FALSE

\* C9: on the timeout the result is a failure whose output is "Execution timed out
\* after N seconds", N the timeout the call was given, and whose elapsed time is N
\* seconds.
C9_TimeoutResult ==
    \A c \in Calls :
        (Returned(c) /\ proc[c].state = "killed") =>
            /\ result[c].success = FALSE
            /\ Frames(result[c].output, TimedOutOpen, loc[c].timeout, TimedOutClose)
            /\ result[c].execution_time = loc[c].timeout * 1000000
            /\ proc[c].timeout = loc[c].timeout

\* C9 witness: a call given 2 seconds has returned its timeout result.
C9_Witness ==
    \E c \in Calls :
        Returned(c) /\ proc[c].state = "killed" /\ loc[c].timeout = 2

\* C10: the deadline of an execution submitted through /execute is the request's
\* timeoutSeconds, and 15 seconds when the request gives none.
C10_RequestDeadline ==
    \A c \in Calls :
        (loc[c] # None /\ loc[c].via = "execute" /\ proc[c].state # "none") =>
            proc[c].timeout = Get(req[c], "timeoutSeconds", 15)


(***************************************************************************)
(* Faults below the classifier.                                            *)
(***************************************************************************)
\* text begins with open
StartsWith(text, open) ==
    Len(text) >= Len(open) /\ SubSeq(text, 1, Len(open)) = open

\* the step of the call that raised, "none" while none has
FaultOf(c) == IF loc[c] = None THEN "none" ELSE loc[c].fault

\* the call has given its caller a failure result
ReturnsFailure(c) ==
    /\ pc[c] \in {"cleanup"} \cup AfterReturn
    /\ "success" \in DOMAIN result[c]
    /\ result[c].success = FALSE

\* C11: a call whose write of the source file failed returns a failure result whose
\* output reports the write failure, and has spawned no container.
C11_WriteFailureReturned ==
    \A c \in Calls :
        FaultOf(c) = "write" =>
            /\ ReturnsFailure(c)
            /\ StartsWith(result[c].output, WriteFailedOpen)
            /\ loc[c].attempts = 0
            /\ proc[c] = NoProc /\ cont[c] = NoCont

\* C12: no fault of creating the workspace, writing the file or spawning the client
\* leaves execute_code_in_docker as an exception: each becomes a returned failure
\* result, and once the call is over neither its workspace nor its container is left.
C12_NoFaultEscapes ==
    \A c \in Calls :
        FaultOf(c) # "none" =>
            /\ ReturnsFailure(c)
            /\ CallOver(c) => (WorkspacesOf(c) = {} /\ cont[c].state # "running")


(***************************************************************************)
(* The size limit of /execute.                                             *)
(***************************************************************************)
\* the code the thread's request carries, as sent
SentCode(c) == Get(req[c], "code", "")

\* C13: a request whose code is larger than 10000 bytes as sent is rejected with a
\* 400 before the call is entered: no workspace, no client and no container exist
\* for it.
C13_OversizedRejected ==
    \A c \in Calls :
        CodeBytes(SentCode(c)) > MaxCodeLen =>
            /\ loc[c] = None
            /\ WorkspacesOf(c) = {} /\ proc[c] = NoProc /\ cont[c] = NoCont
            /\ pc[c] = "done" => resp[c].status = 400


(***************************************************************************)
(* The container invocation.                                               *)
(***************************************************************************)
\* C14: a call that finds no docker executable returns a failure result whose
\* output is the Docker-not-found message, which no result of a non-zero exit code
\* ("Error (Code n):") can be taken for, and never reports success.
C14_DockerMissingReported ==
    \A c \in Calls :
        FaultOf(c) = "docker_missing" =>
            /\ ReturnsFailure(c)
            /\ result[c].output = DockerNotFoundMsg
            /\ ~StartsWith(result[c].output, ErrorCodeOpen)
            /\ proc[c] = NoProc /\ cont[c] = NoCont

\* the commands of the containers started so far
Invocations == {cont[c].command : c \in {e \in Calls : cont[e].state # "none"}}

\* what two invocations may differ in: workspace path, image and run command
PerCall(command) ==
    [mount |-> command.mount, image |-> command.image, run_command |-> command.run_command]

\* the options the claim lists, as docker run takes them
HasSecurityOptions(command) ==
    /\ \A o \in {"--rm", "--memory=128m", "--memory-swap=128m", "--cpus=0.5",
                 "--network=none", "--cap-drop=ALL"} :
          \E i \in DOMAIN command.options : command.options[i] = o
    /\ \E i \in DOMAIN command.options :
          /\ command.options[i] = "--security-opt"
          /\ i + 1 \in DOMAIN command.options
          /\ command.options[i + 1] = "no-new-privileges"
    /\ command.readonly

\* C15: every container is started with --rm, 128m of memory and as much memory
\* plus swap, half a CPU, no network, all capabilities dropped, no-new-privileges
\* and a read-only mount; two invocations that agree on workspace path, image and
\* run command are the same invocation.
C15_FixedSecurityOptions ==
    /\ \A command \in Invocations : HasSecurityOptions(command)
    /\ \A a, b \in Invocations : PerCall(a) = PerCall(b) => a = b


\* the call's one attempt has ended: the client exited or was killed, or
\* subprocess.run raised
AttemptEnded(c) ==
    /\ loc[c] # None
    /\ pc[c] \in {"cleanup"} \cup AfterReturn
    /\ \/ proc[c].state \in {"exited", "killed"}
       \/ loc[c].fault \in {"docker_missing", "spawn"}

\* C16: a call runs subprocess.run at most once and so starts at most one
\* container: after a non-zero exit code, a timeout or a spawn error the count of
\* attempts is one, and a call that made no attempt has no container.
C16_OneAttempt ==
    \A c \in Calls :
        loc[c] # None =>
            /\ loc[c].attempts <= 1
            /\ AttemptEnded(c) => loc[c].attempts = 1
            /\ loc[c].attempts = 0 => (proc[c] = NoProc /\ cont[c] = NoCont)

\* C16 witness: a call has returned the result of a spawn error after its one
\* attempt.
C16_Witness ==
    \E c \in Calls :
        Returned(c) /\ loc[c].fault = "spawn" /\ loc[c].attempts = 1


(***************************************************************************)
(* The order of an execution's steps.                                      *)
(***************************************************************************)
\* C17: the steps of an execution come in the order created, workspace prepared,
\* container running, outcome, workspace destroyed: a container has been started
\* only from the source file written before it, the workspace is there as long as
\* the container runs, and the workspace is gone once the call is over.
C17_LifecycleOrder ==
    \A c \in Calls :
        loc[c] # None =>
            /\ pc[c] \in {"call", "mkdtemp", "write", "spawn"} =>
                  (proc[c] = NoProc /\ cont[c] = NoCont)
            /\ cont[c].state # "none" =>
                  (loc[c].temp_dir # NoDir /\ cont[c].program = loc[c].code)
            /\ cont[c].state = "running" => WorkspacesOf(c) # {}
            /\ CallOver(c) => WorkspacesOf(c) = {}


(***************************************************************************)
(* The fingerprint and the log.                                            *)
(***************************************************************************)
\* C18: two calls with the same code whose client exited or timed out return the
\* same fingerprint of eight characters, whatever their languages, timeouts, users
\* and outcomes.
C18_SameCodeSameFingerprint ==
    \A c, e \in Calls :
        (c # e /\ Classified(c) /\ Classified(e) /\ loc[c].code = loc[e].code) =>
            /\ "code_hash" \in DOMAIN result[c] \cap DOMAIN result[e]
            /\ result[c].code_hash = result[e].code_hash
            /\ Len(result[c].code_hash) = 8


\* the request of thread c passed the handler's validation
Validated(c) == loc[c] # None /\ loc[c].via = "execute"

\* the rows of the log written for thread c's request
RowsOf(c) == {i \in DOMAIN log : log[i].username = Username(c)}

\* C19: for a request that passed validation log_execution is called once, after
\* execute_code_in_docker has returned and before the response: none while the call
\* runs, one by the time the response is sent; the row it writes has the language
\* of the call and the execution time and success of its result, and the response
\* is the result whether or not the row was written.
C19_LoggedOnce ==
    \A c \in Calls :
        Validated(c) =>
            /\ loc[c].log_calls <= 1
            /\ pc[c] \notin {"logged", "done"} => loc[c].log_calls = 0
            /\ pc[c] = "done" =>
                  /\ loc[c].log_calls = 1
                  /\ resp[c].status = 200
                  /\ \A k \in DOMAIN result[c] : resp[c].body[k] = result[c][k]
            /\ \A i \in RowsOf(c) :
                  /\ log[i].language = loc[c].language
                  /\ log[i].execution_time = result[c].execution_time
                  /\ log[i].success = result[c].success


(***************************************************************************)
(* Accounts: /register, /login and /stats of app.py.  users is the users   *)
(* table, a row per username; tokens holds the identities of the access    *)
(* tokens issued so far.  Each handler is one database transaction, and    *)
(* the thread is free again once it has answered.                          *)
(***************************************************************************)
\* usernames a client sends: one of three letters, one to strip, one too short
Usernames == {<<"b","o","b">>, <<" ","e","v","e"," ">>, <<"a","b">>}

\* passwords a client sends: one of six characters, one too short
Passwords == {<<"s","e","c","r","e","t">>, <<"p","w">>}

\* roles a client asks for
Roles == {"user", "admin", "root"}

\* bcrypt.hashpw(password, salt) and bcrypt.checkpw(password, hashed)
hashpw(password) == <<"bcrypt", password>>
checkpw(password, hashed) == hashed = hashpw(password)

\* request.json of /register and of /login
RegisterData ==
    LET base == {[username |-> u, password |-> p] : u \in Usernames, p \in Passwords}
    IN  base \cup {b @@ [role |-> r] : b \in base, r \in Roles}

LoginData ==
    {[username |-> u, password |-> p] : u \in Usernames, p \in Passwords}
      \cup {[username |-> u] : u \in Usernames}

\* what a handler answers: queries counts the SQL statements it ran for the answer
Answer(status, body, queries) == [status |-> status, body |-> body, queries |-> queries]

\* INSERT INTO users: the table with the row added (sqlite3 may also fail to open or
\* write users.db: the handlers then answer 500)
Insert(table, username, row) ==
    [u \in DOMAIN table \cup {username} |-> IF u = username THEN row ELSE table[u]]

register(c) ==
    /\ pc[c] = "idle"
    /\ \E data \in RegisterData \cup {<< >>} :
          LET username == strip(Get(data, "username", << >>))
              password == Get(data, "password", << >>)
              role == Get(data, "role", "user")
          IN  /\ req' = [req EXCEPT ![c] = [op |-> "register", data |-> data]]
              /\ IF IsNoData(data)
                 THEN /\ resp' = [resp EXCEPT ![c] = Answer(400, "No data provided", 0)]
                      /\ UNCHANGED users
                 ELSE IF Len(username) < 3
                 THEN /\ resp' = [resp EXCEPT ![c] =
                                    Answer(400, "Username must be at least 3 characters", 0)]
                      /\ UNCHANGED users
                 ELSE IF Len(password) < 6
                 THEN /\ resp' = [resp EXCEPT ![c] =
                                    Answer(400, "Password must be at least 6 characters", 0)]
                      /\ UNCHANGED users
                 ELSE IF role \notin {"user", "admin"}
                 THEN /\ resp' = [resp EXCEPT ![c] = Answer(400, "Invalid role", 0)]
                      /\ UNCHANGED users
                 ELSE \/ IF username \in DOMAIN users
                         THEN /\ resp' = [resp EXCEPT ![c] =
                                            Answer(409, "Username already exists", 1)]
                              /\ UNCHANGED users
                         ELSE /\ users' = Insert(users, username,
                                                 [password |-> hashpw(password), role |-> role])
                              /\ resp' = [resp EXCEPT ![c] =
                                            Answer(200, [message |-> "User registered successfully!",
                                                         username |-> username], 1)]
                      \/ /\ resp' = [resp EXCEPT ![c] = Answer(500, "Registration failed", 0)]
                         /\ UNCHANGED users
    /\ UNCHANGED <<pc, loc, result, dirs, files, proc, cont, log, tokens>>

login(c) ==
    /\ pc[c] = "idle"
    /\ \E data \in LoginData \cup {<< >>} :
          LET username == strip(Get(data, "username", << >>))
              password == Get(data, "password", << >>)
              user == IF username \in DOMAIN users THEN users[username] ELSE None
          IN  /\ req' = [req EXCEPT ![c] = [op |-> "login", data |-> data]]
              /\ IF IsNoData(data)
                 THEN /\ resp' = [resp EXCEPT ![c] = Answer(400, "No credentials provided", 0)]
                      /\ UNCHANGED tokens
                 ELSE IF username = << >> \/ password = << >>
                 THEN /\ resp' = [resp EXCEPT ![c] =
                                    Answer(400, "Username and password required", 0)]
                      /\ UNCHANGED tokens
                 ELSE \/ IF user # None /\ checkpw(password, user.password)
                         THEN LET identity == [username |-> username, role |-> user.role]
                              IN  /\ tokens' = tokens \cup {identity}
                                  /\ resp' = [resp EXCEPT ![c] =
                                                Answer(200, [access_token |-> identity,
                                                             username |-> username,
                                                             role |-> user.role,
                                                             message |-> "Login successful"], 1)]
                         ELSE /\ resp' = [resp EXCEPT ![c] =
                                            Answer(401, "Invalid credentials", 1)]
                              /\ UNCHANGED tokens
                      \/ /\ resp' = [resp EXCEPT ![c] = Answer(500, "Login failed", 0)]
                         /\ UNCHANGED tokens
    /\ UNCHANGED <<pc, loc, result, dirs, files, proc, cont, log, users>>

\* the rows of execution_logs WHERE success = 1
Successful == {i \in DOMAIN log : log[i].success}

\* round(successful / total * 100, 2), in hundredths of a percent
SuccessRate(successful, total) ==
    IF total > 0
    THEN LET q == (successful * 10000) \div total
             r == (successful * 10000) % total
         IN  IF 2 * r > total \/ (2 * r = total /\ q % 2 = 1) THEN q + 1 ELSE q
    ELSE 0

\* the statistics the four SELECTs of get_stats gather
Statistics ==
    [total_users |-> Cardinality(DOMAIN users),
     total_executions |-> Len(log),
     successful_executions |-> Cardinality(Successful),
     success_rate |-> SuccessRate(Cardinality(Successful), Len(log)),
     language_usage |->
        [l \in {log[i].language : i \in DOMAIN log} |->
            Cardinality({i \in DOMAIN log : log[i].language = l})]]

\* get_stats as it would be with the SELECTs run before the role is looked at
get_stats_late_check(c) ==
    /\ pc[c] = "idle"
    /\ \E current_user \in tokens :
          /\ req' = [req EXCEPT ![c] = [op |-> "stats", identity |-> current_user]]
          /\ resp' = [resp EXCEPT ![c] =
                        IF current_user.role # "admin"
                        THEN Answer(403, "Admin access required", 4)
                        ELSE Answer(200, Statistics, 4)]
    /\ UNCHANGED <<pc, loc, result, dirs, files, proc, cont, log, users, tokens>>

\* GET /stats with a token that jwt_required has accepted: one the server issued
get_stats(c) ==
    /\ pc[c] = "idle"
    /\ \E current_user \in tokens :
          /\ req' = [req EXCEPT ![c] = [op |-> "stats", identity |-> current_user]]
          /\ IF current_user.role # "admin"
             THEN resp' = [resp EXCEPT ![c] = Answer(403, "Admin access required", 0)]
             ELSE \/ resp' = [resp EXCEPT ![c] = Answer(200, Statistics, 4)]
                  \/ resp' = [resp EXCEPT ![c] = Answer(500, "Failed to get statistics", 0)]
    /\ UNCHANGED <<pc, loc, result, dirs, files, proc, cont, log, users, tokens>>

\* One client at a time registers, logs in and asks for the statistics.
NextAuth == register(1) \/ login(1) \/ get_stats(1)

SpecAuth == Init /\ [][NextAuth]_vars

\* the operation of the last request thread c handled
Op(c) == Get(req[c], "op", "")

\* C20: /stats answers with the statistics only to a token whose role is admin, and
\* answers any other role 403 without a query to the database; a token's role is
\* admin only if the users table holds its user with the role admin, the role the
\* user was registered with.
C20_StatsAdminOnly ==
    /\ \A t \in tokens :
          t.role = "admin" =>
              (t.username \in DOMAIN users /\ users[t.username].role = "admin")
    /\ \A c \in Calls :
          Op(c) = "stats" =>
              /\ resp[c].status = 200 => req[c].identity.role = "admin"
              /\ req[c].identity.role # "admin" =>
                    (resp[c].status = 403 /\ resp[c].queries = 0)

\* C20 witness: while an admin token exists, /stats has answered a token of role
\* user with 403.
C20_Witness ==
    \E c \in Calls :
        /\ Op(c) = "stats"
        /\ req[c].identity.role = "user"
        /\ resp[c].status = 403
        /\ \E t \in tokens : t.role = "admin"

====
